---- MODULE Spec2Model ----
(***************************************************************************)
(* serseg: a sector/field binary serializer.  A SerialBuilder is an        *)
(* insertion-ordered map from sector keys to SerialSectorBuilders (lists   *)
(* of SerialFields).  build() first lays the sectors out (SerialTracker),  *)
(* then emits every field into a seekable sink and flushes it.             *)
(***************************************************************************)
EXTENDS Integers, Sequences, FiniteSets, TLC

VARIABLES
    sectors,    \* SerialBuilder.sectors: IndexMap as a sequence of [key, fields]
    pending,    \* the SerialSectorBuilder under construction (its fields)
    pc,         \* "construct", "track", "emit", "ok", "err", "panic"
    tracker,    \* SerialTracker.sector_offsets: key -> start offset
    offset,     \* SerialTracker::new: the running offset
    li,         \* SerialTracker::new: index of the next sector to size
    si,         \* SerialBuilder::build: index of the sector being emitted
    fi,         \* SerialSectorBuilder::build: index of the next field
    data,       \* the sink's bytes (Cursor<Vec<u8>>)
    pos,        \* the sink's position
    sink0,      \* the sink as handed to build: [data, pos]
    flushed,    \* number of flush() calls on the sink
    err,        \* the error build returned (NoError if none)
    log,        \* the fields emitted so far, in order: which field, the sink
                \* position and length before and after it
    call        \* a direct call of one of the crate's functions: its
                \* arguments and, once it has returned, its result

vars == <<sectors, pending, pc, tracker, offset, li, si, fi, data, pos, sink0,
          flushed, err, log, call>>

-----------------------------------------------------------------------------
(* Bounds of the model *)

\* most fields held by the builder (inserted sectors and the pending one)
MaxFields == 3
\* largest fill amount handed to fill()
MaxFill == 2

\* sector keys (lib.rs tests: ExampleSectorKey), in the order in which new
\* keys are introduced; keys are only compared for equality, so taking new
\* keys in this order loses no behaviour
KeyOrder == <<"First", "Second">>
Keys == {KeyOrder[i] : i \in 1..Len(KeyOrder)}

-----------------------------------------------------------------------------
(* anyhow::Result as a record *)

\* an error: its kind and the values its message names
Error(kind, key, a, b) == [kind |-> kind, key |-> key, a |-> a, b |-> b]
NoError == Error("none", "", 0, 0)

Ok(v) == [ok |-> TRUE, val |-> v, err |-> NoError]
Fail(e) == [ok |-> FALSE, val |-> 0, err |-> e]

RECURSIVE Shr8(_, _)
\* v >> (8 * n)
Shr8(v, n) == IF n = 0 THEN v ELSE Shr8(v \div 256, n - 1)

\* to_le_bytes / write_u16_le / write_u32_le: least significant byte first
LeBytes(v, n) == [i \in 1..n |-> Shr8(v, i - 1) % 256]

\* tokio write_u16 / write_u32 / write_u64: most significant byte first
BeBytes(v, n) == [i \in 1..n |-> Shr8(v, n - i) % 256]

RECURSIVE FromLe(_)
\* the integer a little-endian byte string denotes
FromLe(bs) == IF bs = <<>> THEN 0 ELSE bs[1] + 256 * FromLe(Tail(bs))

Zeros(n) == [i \in 1..n |-> 0]

-----------------------------------------------------------------------------
(* field.rs: ScaleRounding *)

\* usize::div_ceil
DivCeil(v, s) == IF v % s > 0 THEN (v \div s) + 1 ELSE v \div s

\* apply whose Nearest rounds halves up: floor((2v + s) / 2s)
apply_half_up(rounding, value, scale) ==
    CASE rounding = "Ceiling" -> DivCeil(value, scale)
      [] rounding = "Nearest" -> ((2 * value) + scale) \div (2 * scale)
      [] rounding = "Floor" -> value \div scale

\* ScaleRounding::apply (scale # 0; a zero scale panics, see BuildField)
apply(rounding, value, scale) ==
    CASE rounding = "Ceiling" -> DivCeil(value, scale)
      [] rounding = "Nearest" ->
            IF value % 2 = 0 THEN value \div scale ELSE (value + 1) \div scale
      [] OTHER -> value \div scale

-----------------------------------------------------------------------------
(* tracker.rs / field.rs: sizes *)

\* offset_from_origin that takes a missing origin to start at 0
offset_from_origin_default(trk, origin) ==
    IF origin \in DOMAIN trk THEN Ok(trk[origin]) ELSE Ok(0)

\* SerialTracker::offset_from_origin
offset_from_origin(trk, origin) ==
    IF origin \in DOMAIN trk THEN Ok(trk[origin])
    ELSE Fail(Error("OriginNotFound", origin, 0, 0))

\* fill_size that forgets to take the fill start off the fill amount
fill_size_whole(off, origin_position, fill) ==
    IF off < origin_position
    THEN Fail(Error("FillBeforeOrigin", "", off, origin_position))
    ELSE LET fill_start == off - origin_position
         IN IF fill < fill_start
            THEN Fail(Error("FillPast", "", fill_start, fill))
            ELSE Ok(fill)

\* fill_size that rejects a fill start equal to the fill amount
fill_size_strict(off, origin_position, fill) ==
    IF off < origin_position
    THEN Fail(Error("FillBeforeOrigin", "", off, origin_position))
    ELSE LET fill_start == off - origin_position
         IN IF fill <= fill_start
            THEN Fail(Error("FillPast", "", fill_start, fill))
            ELSE Ok(fill - fill_start)

\* fill_size that saturates to 0 when the fill start is past the fill amount
fill_size_saturating(off, origin_position, fill) ==
    IF off < origin_position
    THEN Fail(Error("FillBeforeOrigin", "", off, origin_position))
    ELSE LET fill_start == off - origin_position
         IN IF fill < fill_start THEN Ok(0) ELSE Ok(fill - fill_start)

\* SerialField::fill_size
fill_size(off, origin_position, fill) ==
    IF off < origin_position
    THEN Fail(Error("FillBeforeOrigin", "", off, origin_position))
    ELSE LET fill_start == off - origin_position
         IN IF fill < fill_start
            THEN Fail(Error("FillPast", "", fill_start, fill))
            ELSE Ok(fill - fill_start)

\* calculate_size with every Dynamic sized as a 3-byte pointer
calculate_size_u24_only(f, off, trk) ==
    CASE f.kind = "String" -> Ok(Len(f.value) + 1)
      [] f.kind = "Dynamic" -> Ok(3)
      [] f.kind = "U24" -> Ok(3)
      [] f.kind = "U8" -> Ok(1)
      [] f.kind = "U16" -> Ok(2)
      [] f.kind = "U32" -> Ok(4)
      [] f.kind = "U64" -> Ok(8)
      [] f.kind = "Bytes" -> Ok(Len(f.value))
      [] f.kind = "External" -> Ok(f.size)
      [] f.kind = "Fill" ->
            LET o == offset_from_origin(trk, f.origin)
            IN IF o.ok THEN fill_size(off, o.val, f.fill) ELSE o

\* calculate_size that leaves a Fill of an origin not yet tracked for the emission
calculate_size_deferred(f, off, trk) ==
    CASE f.kind = "String" -> Ok(Len(f.value) + 1)
      [] f.kind = "Dynamic" -> Ok(f.bytes)
      [] f.kind = "U24" -> Ok(3)
      [] f.kind = "U8" -> Ok(1)
      [] f.kind = "U16" -> Ok(2)
      [] f.kind = "U32" -> Ok(4)
      [] f.kind = "U64" -> Ok(8)
      [] f.kind = "Bytes" -> Ok(Len(f.value))
      [] f.kind = "External" -> Ok(f.size)
      [] f.kind = "Fill" ->
            LET o == offset_from_origin(trk, f.origin)
            IN IF o.ok THEN fill_size(off, o.val, f.fill) ELSE Ok(0)

\* calculate_size that looks a Dynamic's origin and target up in the tracker
calculate_size_checked(f, off, trk) ==
    CASE f.kind = "String" -> Ok(Len(f.value) + 1)
      [] f.kind = "Dynamic" ->
            IF f.origin \notin DOMAIN trk
            THEN Fail(Error("SectorMissing", f.origin, 0, 0))
            ELSE IF f.sector \notin DOMAIN trk
            THEN Fail(Error("SectorMissing", f.sector, 0, 0))
            ELSE Ok(f.bytes)
      [] f.kind = "U24" -> Ok(3)
      [] f.kind = "U8" -> Ok(1)
      [] f.kind = "U16" -> Ok(2)
      [] f.kind = "U32" -> Ok(4)
      [] f.kind = "U64" -> Ok(8)
      [] f.kind = "Bytes" -> Ok(Len(f.value))
      [] f.kind = "External" -> Ok(f.size)
      [] f.kind = "Fill" ->
            LET o == offset_from_origin(trk, f.origin)
            IN IF o.ok THEN fill_size(off, o.val, f.fill) ELSE o

\* SerialField::calculate_size
calculate_size(f, off, trk) ==
    CASE f.kind = "String" -> Ok(Len(f.value) + 1)
      [] f.kind = "Dynamic" -> Ok(f.bytes)
      [] f.kind = "U24" -> Ok(3)
      [] f.kind = "U8" -> Ok(1)
      [] f.kind = "U16" -> Ok(2)
      [] f.kind = "U32" -> Ok(4)
      [] f.kind = "U64" -> Ok(8)
      [] f.kind = "Bytes" -> Ok(Len(f.value))
      [] f.kind = "External" -> Ok(f.size)
      [] f.kind = "Fill" ->
            LET o == offset_from_origin(trk, f.origin)
            IN IF o.ok THEN fill_size(off, o.val, f.fill) ELSE o

RECURSIVE SizeFields(_, _, _, _)
\* `for field in fields[..n] { offset += field.calculate_size(offset, tracker)? }`
SizeFields(fields, n, off, trk) ==
    IF n = 0 THEN Ok(off)
    ELSE LET before == SizeFields(fields, n - 1, off, trk)
         IN IF ~before.ok THEN before
            ELSE LET sz == calculate_size(fields[n], before.val, trk)
                 IN IF sz.ok THEN Ok(before.val + sz.val) ELSE sz

\* IndexMap::get: position of key in the map, 0 if absent
IndexOf(secs, key) ==
    IF \E i \in 1..Len(secs) : secs[i].key = key
    THEN CHOOSE i \in 1..Len(secs) : secs[i].key = key
    ELSE 0

\* IndexMap::insert that always appends
MapInsertAppend(secs, key, fields) == Append(secs, [key |-> key, fields |-> fields])

\* IndexMap::insert: replace in place, or append
MapInsert(secs, key, fields) ==
    LET i == IndexOf(secs, key)
    IN IF i = 0 THEN Append(secs, [key |-> key, fields |-> fields])
       ELSE [secs EXCEPT ![i].fields = fields]

\* offset_field_from_sector that saturates the sector distance at 0
offset_field_from_sector_saturating(trk, from_sector, to_sector, to_index, secs) ==
    IF from_sector \notin DOMAIN trk
    THEN Fail(Error("SectorMissing", from_sector, 0, 0))
    ELSE IF to_sector \notin DOMAIN trk
    THEN Fail(Error("SectorMissing", to_sector, 0, 0))
    ELSE IF IndexOf(secs, to_sector) = 0
    THEN Fail(Error("SectorMissing", to_sector, 0, 0))
    ELSE LET fields == secs[IndexOf(secs, to_sector)].fields
             n == IF to_index < Len(fields) THEN to_index ELSE Len(fields)
             distance == IF trk[to_sector] < trk[from_sector] THEN 0
                         ELSE trk[to_sector] - trk[from_sector]
         IN IF Len(fields) <= to_index /\ to_index # 0
            THEN Fail(Error("IndexRange", to_sector, Len(fields), to_index))
            ELSE SizeFields(fields, n, distance, trk)

\* SerialTracker::offset_field_from_sector
offset_field_from_sector(trk, from_sector, to_sector, to_index, secs) ==
    IF from_sector \notin DOMAIN trk
    THEN Fail(Error("SectorMissing", from_sector, 0, 0))
    ELSE IF to_sector \notin DOMAIN trk
    THEN Fail(Error("SectorMissing", to_sector, 0, 0))
    ELSE IF trk[to_sector] < trk[from_sector]
    THEN Fail(Error("FromAhead", "", trk[from_sector], trk[to_sector]))
    ELSE IF IndexOf(secs, to_sector) = 0
    THEN Fail(Error("SectorMissing", to_sector, 0, 0))
    ELSE LET fields == secs[IndexOf(secs, to_sector)].fields
             n == IF to_index < Len(fields) THEN to_index ELSE Len(fields)
         IN IF Len(fields) <= to_index /\ to_index # 0
            THEN Fail(Error("IndexRange", to_sector, Len(fields), to_index))
            ELSE SizeFields(fields, n, trk[to_sector] - trk[from_sector], trk)

-----------------------------------------------------------------------------
(* The sink: std::io::Cursor<Vec<u8>> behind tokio's AsyncWrite + AsyncSeek *)

\* Cursor<Vec<u8>>::write: zero-pad up to the position, then overwrite/extend
CursorWrite(d, p, bs) ==
    LET padded == IF p > Len(d) THEN d \o Zeros(p - Len(d)) ELSE d
        end == p + Len(bs)
        n == IF end > Len(padded) THEN end ELSE Len(padded)
    IN [i \in 1..n |-> IF i > p /\ i <= end THEN bs[i - p] ELSE padded[i]]

\* AsyncWriteExt::write_all: loops while the buffer is non-empty
WriteAll(d, p, bs) == IF bs = <<>> THEN d ELSE CursorWrite(d, p, bs)

\* the files External fields may name: path -> contents
Files == [one |-> <<161>>]

-----------------------------------------------------------------------------
(* field.rs: SerialField::build *)

Wrote(d, p) == [ok |-> TRUE, err |-> NoError, data |-> d, pos |-> p]
Bail(e, d, p) == [ok |-> FALSE, err |-> e, data |-> d, pos |-> p]

\* a usize (64 bits) as its 8 bytes, least significant first
UsizeBytes(v) == LeBytes(v, 8)

\* `as u32` on a usize: its low 32 bits, as 4 bytes
AsU32(bs) == SubSeq(bs, 1, 4)

\* u8 / u16 / u32::try_from(u32) and u24::checked_from_u32: the value in
\* `width` bytes if the bytes above them are zero
try_from(width, u32) ==
    IF \A i \in (width + 1)..4 : u32[i] = 0
    THEN Ok(SubSeq(u32, 1, width))
    ELSE Fail(Error("PointerLimit", "", width, 8 * width))

\* match_bytes!: `<$type>::$try_from(scaled as u32)`
narrow(width, scaled) == try_from(width, AsU32(scaled))

\* the Dynamic arm
BuildDynamic(f, d, p, secs, trk) ==
    LET pointer == offset_field_from_sector(trk, f.origin, f.sector, f.index, secs)
    IN IF ~pointer.ok THEN Bail(pointer.err, d, p)
       ELSE IF f.bytes \notin {1, 2, 3, 4} THEN Bail(Error("UnsupportedWidth", "", f.bytes, 0), d, p)
       ELSE IF f.scale = 0 THEN Bail(Error("DivideByZero", "", pointer.val, 0), d, p)
       ELSE LET p_ == narrow(f.bytes, UsizeBytes(apply(f.rounding, pointer.val, f.scale)))
            IN IF ~p_.ok THEN Bail(p_.err, d, p)
               ELSE Wrote(CursorWrite(d, p, p_.val), p + f.bytes)

\* the Fill arm seeking by the whole fill amount
BuildFillWhole(f, d, p, trk) ==
    LET o == offset_from_origin(trk, f.origin)
        amount == fill_size(p, o.val, f.fill)
    IN IF ~o.ok THEN Bail(o.err, d, p)
       ELSE IF ~amount.ok THEN Bail(amount.err, d, p)
       ELSE Wrote(d, p + f.fill)

\* the Fill arm without its seek
BuildFillNoSeek(f, d, p, trk) ==
    LET o == offset_from_origin(trk, f.origin)
        amount == fill_size(p, o.val, f.fill)
    IN IF ~o.ok THEN Bail(o.err, d, p)
       ELSE IF ~amount.ok THEN Bail(amount.err, d, p)
       ELSE Wrote(d, p)

\* the Fill arm writing the zero bytes instead of seeking over them
BuildFillZeros(f, d, p, trk) ==
    LET o == offset_from_origin(trk, f.origin)
        amount == fill_size(p, o.val, f.fill)
    IN IF ~o.ok THEN Bail(o.err, d, p)
       ELSE IF ~amount.ok THEN Bail(amount.err, d, p)
       ELSE Wrote(WriteAll(d, p, Zeros(amount.val)), p + amount.val)

\* the Fill arm
BuildFill(f, d, p, trk) ==
    LET o == offset_from_origin(trk, f.origin)
        amount == fill_size(p, o.val, f.fill)
    IN IF ~o.ok THEN Bail(o.err, d, p)
       ELSE IF ~amount.ok THEN Bail(amount.err, d, p)
       ELSE Wrote(d, p + amount.val)

\* the External arm without the check of the written size
BuildExternalUnchecked(f, d, p) ==
    IF f.path \notin DOMAIN Files THEN Bail(Error("Io", "", 0, 0), d, p)
    ELSE LET contents == Files[f.path]
             read == Len(contents)
         IN Wrote(CursorWrite(d, p, contents), p + read)

\* the External arm
BuildExternal(f, d, p) ==
    IF f.path \notin DOMAIN Files THEN Bail(Error("Io", "", 0, 0), d, p)
    ELSE LET contents == Files[f.path]
             read == Len(contents)
             d2 == CursorWrite(d, p, contents)
         IN IF read # f.size THEN Bail(Error("ExternalSize", "", f.size, read), d2, p + read)
            ELSE Wrote(d2, p + read)

\* SerialField::build
BuildField(f, d, p, secs, trk) ==
    CASE f.kind = "String" ->
            Wrote(CursorWrite(WriteAll(d, p, f.value), p + Len(f.value), <<0>>),
                  p + Len(f.value) + 1)
      [] f.kind = "Bytes" -> Wrote(WriteAll(d, p, f.value), p + Len(f.value))
      [] f.kind = "Dynamic" -> BuildDynamic(f, d, p, secs, trk)
      [] f.kind = "U8" -> Wrote(CursorWrite(d, p, <<f.value>>), p + 1)
      [] f.kind = "U16" -> Wrote(CursorWrite(d, p, BeBytes(f.value, 2)), p + 2)
      [] f.kind = "U24" -> Wrote(CursorWrite(d, p, LeBytes(f.value, 3)), p + 3)
      [] f.kind = "U32" -> Wrote(CursorWrite(d, p, BeBytes(f.value, 4)), p + 4)
      [] f.kind = "U64" -> Wrote(CursorWrite(d, p, BeBytes(f.value, 8)), p + 8)
      [] f.kind = "Fill" -> BuildFill(f, d, p, trk)
      [] f.kind = "External" -> BuildExternal(f, d, p)

-----------------------------------------------------------------------------
(* builder.rs: the builder surface *)

\* number of fields the builder and the pending sector builder hold
RECURSIVE CountFields(_)
CountFields(secs) ==
    IF secs = <<>> THEN 0 ELSE Len(Head(secs).fields) + CountFields(Tail(secs))

\* values handed to the typed helpers
U8Vals == {255}
U16Vals == {258}
U24Vals == {66051}
U32Vals == {16909060}
U64Vals == {16909060}
StringVals == {<<84>>}
BytesVals == {<<>>}
IndexVals == {0, 1}
ExternalSizes == {1, 2}

\* SerialSectorBuilder::field
field(f) ==
    /\ pc = "construct"
    /\ CountFields(sectors) + Len(pending) < MaxFields
    /\ pending' = Append(pending, f)
    /\ UNCHANGED <<sectors, pc, tracker, offset, li, si, fi, data, pos, sink0,
                   flushed, err, log, call>>

string ==
    /\ pc = "construct"
    /\ \E v \in StringVals : field([kind |-> "String", value |-> v])

bytes ==
    /\ pc = "construct"
    /\ \E v \in BytesVals : field([kind |-> "Bytes", value |-> v])

u8 ==
    /\ pc = "construct"
    /\ \E v \in U8Vals : field([kind |-> "U8", value |-> v])

u16 ==
    /\ pc = "construct"
    /\ \E v \in U16Vals : field([kind |-> "U16", value |-> v])

u24 ==
    /\ pc = "construct"
    /\ \E v \in U24Vals : field([kind |-> "U24", value |-> v])

u32 ==
    /\ pc = "construct"
    /\ \E v \in U32Vals : field([kind |-> "U32", value |-> v])

u64 ==
    /\ pc = "construct"
    /\ \E v \in U64Vals : field([kind |-> "U64", value |-> v])

Dynamic(origin, to, index, scale, width) ==
    [kind |-> "Dynamic", origin |-> origin, sector |-> to, index |-> index,
     scale |-> scale, rounding |-> "Floor", bytes |-> width]

dynamic_u16 ==
    /\ pc = "construct"
    /\ \E origin \in Keys, to \in Keys, index \in IndexVals :
           field(Dynamic(origin, to, index, 1, 2))

dynamic_u24 ==
    /\ pc = "construct"
    /\ \E origin \in Keys, to \in Keys, index \in IndexVals :
           field(Dynamic(origin, to, index, 1, 3))

fill ==
    /\ pc = "construct"
    /\ \E origin \in Keys, n \in 0..MaxFill :
           field([kind |-> "Fill", origin |-> origin, fill |-> n])

external ==
    /\ pc = "construct"
    /\ \E path \in DOMAIN Files, size \in ExternalSizes :
           field([kind |-> "External", path |-> path, size |-> size])

\* SerialBuilder::sector (sector_default when the sector builder is empty)
sector ==
    /\ pc = "construct"
    /\ \E key \in Keys :
          /\ \/ IndexOf(sectors, key) # 0
             \/ /\ Len(sectors) < Len(KeyOrder)
                /\ key = KeyOrder[Len(sectors) + 1]
          /\ sectors' = MapInsert(sectors, key, pending)
    /\ pending' = <<>>
    /\ UNCHANGED <<pc, tracker, offset, li, si, fi, data, pos, sink0, flushed,
                   err, log, call>>

-----------------------------------------------------------------------------
(* builder.rs: SerialBuilder::build *)

\* NextField that keeps the field index when it moves to the next sector
RECURSIVE NextFieldKeepIndex(_, _, _)
NextFieldKeepIndex(secs, s, f) ==
    IF s > Len(secs) THEN <<s, 1>>
    ELSE IF f <= Len(secs[s].fields) THEN <<s, f>>
    ELSE NextFieldKeepIndex(secs, s + 1, f)

\* the first (sector, field) at or after (s, f) that holds a field; s = Len + 1 if none
RECURSIVE NextField(_, _, _)
NextField(secs, s, f) ==
    IF s > Len(secs) THEN <<s, 1>>
    ELSE IF f <= Len(secs[s].fields) THEN <<s, f>>
    ELSE NextField(secs, s + 1, 1)

\* sinks a build may be handed: [data, pos]
Sinks == {[data |-> <<>>, pos |-> 0], [data |-> <<238, 238>>, pos |-> 1]}

\* entry that skips SerialTracker::new and goes straight to the emission
build_untracked ==
    /\ pc = "construct"
    /\ pending = <<>>
    /\ \E buffer \in Sinks :
          /\ sink0' = buffer
          /\ data' = buffer.data
          /\ pos' = buffer.pos
    /\ pc' = "emit"
    /\ si' = NextField(sectors, 1, 1)[1]
    /\ fi' = NextField(sectors, 1, 1)[2]
    /\ UNCHANGED <<sectors, pending, tracker, offset, li, flushed, err, log,
                   call>>

\* entry: SerialTracker::new starts with an empty map and offset 0
build ==
    /\ pc = "construct"
    /\ pending = <<>>
    /\ \E buffer \in Sinks :
          /\ sink0' = buffer
          /\ data' = buffer.data
          /\ pos' = buffer.pos
    /\ pc' = IF sectors = <<>> THEN "emit" ELSE "track"
    /\ UNCHANGED <<sectors, pending, tracker, offset, li, si, fi, flushed, err,
                   log, call>>

\* the start taken after the sector's fields are sized
SectorStartAfter(off, sized) == sized

\* a start taken one byte past the running offset
SectorStartPast(off, sized) == off + 1

\* `let start = offset;` before the sector's fields are sized
SectorStart(off, sized) == off

\* SerialTracker::new, one sector of its loop
TrackSector ==
    /\ pc = "track"
    /\ LET sec == sectors[li]
           sized == SizeFields(sec.fields, Len(sec.fields), offset, tracker)
           start == SectorStart(offset, sized.val)
           old == sec.key \in DOMAIN tracker
           inserted == [k \in DOMAIN tracker \cup {sec.key} |->
                            IF k = sec.key THEN start ELSE tracker[k]]
       IN IF ~sized.ok
          THEN /\ pc' = "err"
               /\ err' = sized.err
               /\ UNCHANGED <<tracker, offset, li, si, fi>>
          ELSE /\ tracker' = inserted
               /\ offset' = sized.val
               /\ IF old
                  THEN /\ pc' = "err"
                       /\ err' = Error("AlreadyPopulated", sec.key, tracker[sec.key], 0)
                       /\ UNCHANGED <<li, si, fi>>
                  ELSE /\ li' = li + 1
                       /\ pc' = IF li = Len(sectors) THEN "emit" ELSE "track"
                       /\ si' = NextField(sectors, 1, 1)[1]
                       /\ fi' = NextField(sectors, 1, 1)[2]
                       /\ err' = err
    /\ UNCHANGED <<sectors, pending, data, pos, sink0, flushed, log, call>>

\* an emission loop that notes a field's error and goes on with the next field
EmitFieldContinue ==
    /\ pc = "emit"
    /\ si <= Len(sectors)
    /\ LET f == sectors[si].fields[fi]
           r == BuildField(f, data, pos, sectors, tracker)
       IN /\ data' = r.data
          /\ pos' = r.pos
          /\ si' = NextField(sectors, si, fi + 1)[1]
          /\ fi' = NextField(sectors, si, fi + 1)[2]
          /\ pc' = pc
          /\ IF r.ok
             THEN /\ log' = Append(log, [s |-> si, f |-> fi,
                                         start |-> pos, end |-> r.pos,
                                         len0 |-> Len(data), len1 |-> Len(r.data)])
                  /\ err' = err
             ELSE /\ err' = r.err
                  /\ log' = log
    /\ UNCHANGED <<sectors, pending, tracker, offset, li, sink0, flushed,
                   call>>

\* SerialSectorBuilder::build, one field of its loop
EmitField ==
    /\ pc = "emit"
    /\ si <= Len(sectors)
    /\ LET f == sectors[si].fields[fi]
           r == BuildField(f, data, pos, sectors, tracker)
       IN /\ data' = r.data
          /\ pos' = r.pos
          /\ IF r.ok
             THEN /\ log' = Append(log, [s |-> si, f |-> fi,
                                         start |-> pos, end |-> r.pos,
                                         len0 |-> Len(data), len1 |-> Len(r.data)])
                  /\ si' = NextField(sectors, si, fi + 1)[1]
                  /\ fi' = NextField(sectors, si, fi + 1)[2]
                  /\ UNCHANGED <<pc, err>>
             ELSE /\ pc' = IF r.err.kind = "DivideByZero" THEN "panic" ELSE "err"
                  /\ err' = r.err
                  /\ UNCHANGED <<si, fi, log>>
    /\ UNCHANGED <<sectors, pending, tracker, offset, li, sink0, flushed,
                   call>>

\* buffer.flush() and Ok(())
Flush ==
    /\ pc = "emit"
    /\ si > Len(sectors)
    /\ flushed' = flushed + 1
    /\ pc' = "ok"
    /\ UNCHANGED <<sectors, pending, tracker, offset, li, si, fi, data, pos,
                   sink0, err, log, call>>

\* SerialBuilder::default(), SerialSectorBuilder::default() and a build not
\* yet started
Construct ==
    /\ sectors = <<>>
    /\ pending = <<>>
    /\ pc = "construct"
    /\ tracker = <<>>
    /\ offset = 0
    /\ li = 1
    /\ si = 1
    /\ fi = 1
    /\ sink0 = [data |-> <<>>, pos |-> 0]
    /\ data = <<>>
    /\ pos = 0
    /\ flushed = 0
    /\ err = NoError
    /\ log = <<>>

\* no function is called on its own
NoCall == [op |-> "none"]

Init == Construct /\ call = NoCall

\* SerialBuilder::build, step by step
Build == build \/ TrackSector \/ EmitField \/ Flush

Next == u8 \/ bytes \/ fill \/ dynamic_u16 \/ sector \/ Build

Spec == Init /\ [][Next]_vars

\* builders of fixed-width integers and pointers
NextInts == u8 \/ u16 \/ u24 \/ u32 \/ u64 \/ dynamic_u24 \/ sector \/ Build

SpecInts == Init /\ [][NextInts]_vars

\* builders of bytes and external files
NextExternal == u8 \/ external \/ sector \/ Build

SpecExternal == Init /\ [][NextExternal]_vars

\* scales handed to the chunk helpers
ChunkScales == {0, 2}

dynamic_u16_chunk ==
    /\ pc = "construct"
    /\ \E origin \in Keys, to \in Keys, scale \in ChunkScales :
           field(Dynamic(origin, to, 0, scale, 2))

dynamic_u24_chunk ==
    /\ pc = "construct"
    /\ \E origin \in Keys, to \in Keys, scale \in ChunkScales :
           field(Dynamic(origin, to, 0, scale, 3))

\* builders of bytes and scaled pointers
NextChunk == u8 \/ dynamic_u16_chunk \/ dynamic_u24_chunk \/ sector \/ Build

SpecChunk == Init /\ [][NextChunk]_vars

\* all three keys of ExampleSectorKey, in the order new keys are introduced
KeyOrderThree == <<"First", "Second", "Third">>
KeysThree == {KeyOrderThree[i] : i \in 1..Len(KeyOrderThree)}

\* fill(origin, 1) with any of the three keys as origin
fill_three ==
    /\ pc = "construct"
    /\ \E origin \in KeysThree :
           field([kind |-> "Fill", origin |-> origin, fill |-> 1])

\* dynamic_u16(key, key, index): a pointer into a sector from its own start
dynamic_u16_own ==
    /\ pc = "construct"
    /\ \E key \in KeysThree, index \in IndexVals :
           field(Dynamic(key, key, index, 1, 2))

\* SerialBuilder::sector over the three keys
sector_three ==
    /\ pc = "construct"
    /\ \E key \in KeysThree :
          /\ \/ IndexOf(sectors, key) # 0
             \/ /\ Len(sectors) < Len(KeyOrderThree)
                /\ key = KeyOrderThree[Len(sectors) + 1]
          /\ sectors' = MapInsert(sectors, key, pending)
    /\ pending' = <<>>
    /\ UNCHANGED <<pc, tracker, offset, li, si, fi, data, pos, sink0, flushed,
                   err, log, call>>

\* builders over three sectors: bytes, fills and pointers into the own sector
NextThree == u8 \/ fill_three \/ dynamic_u16_own \/ sector_three \/ Build

SpecThree == Init /\ [][NextThree]_vars

\* most sector() calls recorded
MaxInserts == 3

\* a builder whose sector() calls are recorded in call order: <<key, fields>>
InitSector ==
    /\ Construct
    /\ call = [op |-> "sector", calls |-> <<>>]

\* SerialBuilder::sector, recorded
sector_recorded ==
    /\ pc = "construct"
    /\ Len(call.calls) < MaxInserts
    /\ \E key \in Keys :
          /\ \/ IndexOf(sectors, key) # 0
             \/ /\ Len(sectors) < Len(KeyOrder)
                /\ key = KeyOrder[Len(sectors) + 1]
          /\ sectors' = MapInsert(sectors, key, pending)
          /\ call' = [call EXCEPT !.calls = Append(@, <<key, pending>>)]
    /\ pending' = <<>>
    /\ UNCHANGED <<pc, tracker, offset, li, si, fi, data, pos, sink0, flushed,
                   err, log>>

NextSector == u8 \/ bytes \/ sector_recorded

SpecSector == InitSector /\ [][NextSector]_vars

\* builds of builders whose sector() calls are recorded
NextRebuild == u8 \/ sector_recorded \/ Build

SpecRebuild == InitSector /\ [][NextRebuild]_vars

-----------------------------------------------------------------------------
(* Direct calls of the crate's functions *)

\* ScaleRounding
Roundings == {"Floor", "Ceiling", "Nearest"}

\* largest value and scale handed to a direct call of ScaleRounding::apply
MaxValue == 27
MaxScale == 10

\* ScaleRounding::apply called on its own with a scale of at least 1
InitApply ==
    /\ Construct
    /\ call \in [op : {"apply"}, rounding : Roundings, value : 0..MaxValue,
                 scale : 1..MaxScale, returned : {FALSE}, result : {0}]

\* the call returns
CallApply ==
    /\ call.op = "apply"
    /\ ~call.returned
    /\ call' = [call EXCEPT !.returned = TRUE,
                            !.result = apply(call.rounding, call.value, call.scale)]
    /\ UNCHANGED <<sectors, pending, pc, tracker, offset, li, si, fi, data, pos,
                   sink0, flushed, err, log>>

NextApply == CallApply

SpecApply == InitApply /\ [][NextApply]_vars

\* bytes of the scaled pointer handed to a direct narrowing
ByteVals == {0, 255}

\* the narrowing of match_bytes! on its own: a declared width and a scaled
\* pointer (a usize, as its 8 bytes)
InitNarrow ==
    /\ Construct
    /\ call \in [op : {"narrow"}, width : 1..4, scaled : [1..8 -> ByteVals],
                 returned : {FALSE}, result : {Ok(<<>>)}]

\* the narrowing returns
CallNarrow ==
    /\ call.op = "narrow"
    /\ ~call.returned
    /\ call' = [call EXCEPT !.returned = TRUE,
                            !.result = narrow(call.width, call.scaled)]
    /\ UNCHANGED <<sectors, pending, pc, tracker, offset, li, si, fi, data, pos,
                   sink0, flushed, err, log>>

NextNarrow == CallNarrow

SpecNarrow == InitNarrow /\ [][NextNarrow]_vars

-----------------------------------------------------------------------------
(* Vocabulary of the properties *)

\* the field a log entry is about, and the key of sector s
FieldAt(e) == sectors[e.s].fields[e.f]
KeyOf(s) == sectors[s].key

\* all (sector, field) positions of the builder, in insertion x declaration order
RECURSIVE Flatten(_, _)
Flatten(secs, s) ==
    IF s > Len(secs) THEN <<>>
    ELSE [f \in 1..Len(secs[s].fields) |-> <<s, f>>] \o Flatten(secs, s + 1)

\* the fields of the sectors inserted before sector i, concatenated
RECURSIVE FieldsBefore(_, _)
FieldsBefore(secs, i) ==
    IF i <= 1 THEN <<>> ELSE FieldsBefore(secs, i - 1) \o secs[i - 1].fields

\* layout offset of field f of sector s: tracker[s] plus the layout sizes of
\* the fields before it
LayoutStart(s, f) ==
    SizeFields(sectors[s].fields, f - 1, tracker[KeyOf(s)], tracker).val

\* layout size of field f of sector s
LayoutSize(s, f) == LayoutStart(s, f + 1) - LayoutStart(s, f)

\* SerialTracker::new returned Ok
Tracked == pc \in {"emit", "ok"} \/ (pc \in {"err", "panic"} /\ li > Len(sectors))

\* build returned Ok(())
Succeeded == pc = "ok"

\* the little-endian integer the sink holds in the n bytes from position p
ReadLe(p, n) == FromLe([i \in 1..n |-> data[p + i]])

-----------------------------------------------------------------------------
(* C1: fields are emitted in sector insertion order and, within a sector,   *)
(* in field declaration order: the emissions so far are always a prefix of  *)
(* that order, and a successful build has emitted all of it.                *)
C1_EmissionOrder ==
    /\ Len(log) <= Len(Flatten(sectors, 1))
    /\ \A k \in 1..Len(log) : <<log[k].s, log[k].f>> = Flatten(sectors, 1)[k]
    /\ Succeeded => Len(log) = Len(Flatten(sectors, 1))

C1_Witness ==
    /\ Succeeded
    /\ Len(log) = 3
    /\ log[1].s # log[2].s
    /\ log[2].s = log[3].s

(* C2 (as stated): in a successful build, the little-endian integer written *)
(* for a Dynamic with scale 1 and Floor rounding is tracker[target] -       *)
(* tracker[origin] plus the layout sizes of target.fields[0..index).        *)
C2_PointerResolves ==
    Succeeded =>
        \A k \in 1..Len(log) :
            LET f == FieldAt(log[k])
                t == IndexOf(sectors, f.sector)
            IN (f.kind = "Dynamic" /\ f.scale = 1 /\ f.rounding = "Floor") =>
                  ReadLe(log[k].start, f.bytes) =
                      tracker[f.sector] - tracker[f.origin]
                      + (LayoutStart(t, f.index + 1) - tracker[f.sector])

(* C3 (as stated): on success the sum of the layout sizes of all fields     *)
(* equals the number of bytes the build wrote into the (empty) sink.        *)
C3_SizeEqualsBytes ==
    (Succeeded /\ sink0.data = <<>>) => Len(data) = offset

\* the build ended with a Fill that moved the position and no write after it
EndsWithSkip ==
    \E k \in 1..Len(log) :
        /\ FieldAt(log[k]).kind = "Fill"
        /\ log[k].end > log[k].start
        /\ \A j \in (k + 1)..Len(log) : log[j].len1 = log[j].len0

(* C3 (amended): on success into a sink that starts at position 0, the sum  *)
(* of the layout sizes equals the final sink position; an empty sink then   *)
(* holds exactly that many bytes unless the build ended with a Fill that    *)
(* skipped forward and no write followed it, and then it holds fewer.       *)
C3_SizeEqualsAdvance ==
    (Succeeded /\ sink0.pos = 0) =>
        /\ pos = offset
        /\ sink0.data = <<>> =>
              IF EndsWithSkip THEN Len(data) < offset ELSE Len(data) = offset

C3_Witness ==
    /\ Succeeded
    /\ sink0.pos = 0
    /\ sink0.data = <<>>
    /\ EndsWithSkip
    /\ Len(data) > 0

(* C4: in a successful build into a sink that starts at position 0, every   *)
(* field (s, i) is written starting at tracker[s] plus the layout sizes of  *)
(* s.fields[0..i); a sector's first field starts at tracker[s].             *)
C4_OffsetStability ==
    (Succeeded /\ sink0.pos = 0) =>
        \A k \in 1..Len(log) :
            /\ log[k].start = LayoutStart(log[k].s, log[k].f)
            /\ log[k].f = 1 => log[k].start = tracker[KeyOf(log[k].s)]

C4_Witness ==
    /\ Succeeded
    /\ sink0.pos = 0
    /\ Len(log) = 3
    /\ log[3].s = 2
    /\ log[3].f = 2
    /\ FieldAt(log[2]).kind = "Fill"
    /\ log[2].end > log[2].start
    /\ tracker[KeyOf(2)] > 0

(* C5: after a successful SerialTracker::new, every sector key is recorded  *)
(* with the sum of the sizes of all fields of the sectors inserted before   *)
(* it (0 for the first), so the offsets are nondecreasing in insertion      *)
(* order.                                                                   *)
C5_TrackerCumulative ==
    Tracked =>
        \A i \in 1..Len(sectors) :
            /\ KeyOf(i) \in DOMAIN tracker
            /\ tracker[KeyOf(i)] =
                  SizeFields(FieldsBefore(sectors, i),
                             Len(FieldsBefore(sectors, i)), 0, tracker).val
            /\ i > 1 => tracker[KeyOf(i - 1)] <= tracker[KeyOf(i)]

C5_Witness ==
    /\ Tracked
    /\ Len(sectors) = 2
    /\ tracker[KeyOf(1)] = 0
    /\ tracker[KeyOf(2)] = 2
    /\ \E f \in 1..Len(sectors[2].fields) : sectors[2].fields[f].kind = "Fill"

(* C6 (as stated): every fixed-width integer field is emitted little-endian: *)
(* a U16, U32 or U64 with value v is written least-significant byte first   *)
(* in 2, 4 or 8 bytes, like U24 and Dynamic pointers.                       *)
IntWidth(kind) ==
    CASE kind = "U8" -> 1
      [] kind = "U16" -> 2
      [] kind = "U24" -> 3
      [] kind = "U32" -> 4
      [] kind = "U64" -> 8

C6_LittleEndian ==
    Succeeded =>
        \A k \in 1..Len(log) :
            LET f == FieldAt(log[k])
            IN f.kind \in {"U8", "U16", "U24", "U32", "U64"} =>
                  [i \in 1..IntWidth(f.kind) |-> data[log[k].start + i]]
                      = LeBytes(f.value, IntWidth(f.kind))

(* C7: once a Fill(origin, N) has been emitted the sink position is         *)
(* tracker[origin] + N, and the next field emitted starts exactly there,    *)
(* wherever the Fill itself started.                                        *)
C7_FillLaw ==
    \A k \in 1..Len(log) :
        LET f == FieldAt(log[k])
        IN f.kind = "Fill" =>
              /\ log[k].end = tracker[f.origin] + f.fill
              /\ k < Len(log) => log[k + 1].start = tracker[f.origin] + f.fill

C7_Witness ==
    /\ Succeeded
    /\ sink0.pos = 1
    /\ \E k \in 1..(Len(log) - 1) :
          /\ FieldAt(log[k]).kind = "Fill"
          /\ log[k].end > log[k].start
          /\ log[k].start > tracker[FieldAt(log[k]).origin]
          /\ log[k + 1].end > log[k + 1].start

\* the log entry is a field other than a Fill that wrote at least one byte
WroteBytes(e) == FieldAt(e).kind # "Fill" /\ e.end > e.start

(* C8: in a successful build into an initially empty sink, when a Fill is   *)
(* followed by a field that writes, every byte from the Fill's start up to  *)
(* tracker[origin] + fill reads back as zero.                               *)
C8_FillReadsZero ==
    (Succeeded /\ sink0.data = <<>>) =>
        \A k \in 1..Len(log) :
            LET f == FieldAt(log[k])
            IN (f.kind = "Fill" /\ \E j \in (k + 1)..Len(log) : WroteBytes(log[j])) =>
                  \A i \in (log[k].start + 1)..(tracker[f.origin] + f.fill) :
                      data[i] = 0

C8_Witness ==
    /\ Succeeded
    /\ sink0.data = <<>>
    /\ \E k \in 1..(Len(log) - 1) :
          /\ FieldAt(log[k]).kind = "Fill"
          /\ log[k].end > log[k].start
          /\ log[k].start > 0
          /\ WroteBytes(log[k + 1])
          /\ data[log[k].start + 1] = 0

(* C9: a Fill whose current position already equals tracker[origin] + fill  *)
(* is valid: it has size 0, adds no bytes and leaves the position where it  *)
(* was, and fill_size fails only when the fill start is strictly past the   *)
(* fill amount.                                                             *)
C9_ZeroFill ==
    /\ \A k \in 1..Len(log) :
          LET f == FieldAt(log[k])
          IN (f.kind = "Fill" /\ log[k].start = tracker[f.origin] + f.fill) =>
                /\ log[k].end = log[k].start
                /\ log[k].len1 = log[k].len0
                /\ sink0.pos = 0 => LayoutSize(log[k].s, log[k].f) = 0
    /\ err.kind = "FillPast" => err.a > err.b

C9_Witness ==
    /\ Succeeded
    /\ \E k \in 1..Len(log) :
          /\ FieldAt(log[k]).kind = "Fill"
          /\ log[k].start = tracker[FieldAt(log[k]).origin] + FieldAt(log[k]).fill
          /\ log[k].start > 0
          /\ FieldAt(log[k]).fill > 0

\* build failed while emitting the field at (si, fi)
EmitFailed == pc = "err" /\ li > Len(sectors) /\ si <= Len(sectors)

(* C10: when the last field of the last sector is a Fill with a positive    *)
(* remaining count, the Fill does not fail and does not extend the sink:    *)
(* after the successful build the sink holds what it held before the Fill,  *)
(* which for an initially empty sink ends before the Fill's start.          *)
C10_TrailingFill ==
    /\ Succeeded =>
          LET n == Len(log)
          IN (n > 0 /\ FieldAt(log[n]).kind = "Fill" /\ log[n].end > log[n].start) =>
                /\ Len(data) = log[n].len0
                /\ sink0.data = <<>> =>
                      (Len(data) <= log[n].start /\ Len(data) < pos)
    /\ EmitFailed =>
          LET f == sectors[si].fields[fi]
          IN ~(/\ f.kind = "Fill"
               /\ f.origin \in DOMAIN tracker
               /\ pos >= tracker[f.origin]
               /\ f.fill > pos - tracker[f.origin])

C10_Witness ==
    /\ Succeeded
    /\ sink0.data = <<>>
    /\ Len(log) = 2
    /\ FieldAt(log[2]).kind = "Fill"
    /\ log[2].end > log[2].start
    /\ Len(data) = 1
    /\ pos = 2

\* the field build is at: the next to emit, or the one whose emission failed
Current == sectors[si].fields[fi]

\* the current field is a Fill of a tracked origin and the sink position is
\* already past tracker[origin] + fill
CurrentFillPast ==
    /\ si <= Len(sectors)
    /\ Current.kind = "Fill"
    /\ Current.origin \in DOMAIN tracker
    /\ pos - tracker[Current.origin] > Current.fill

(* C11: a Fill(origin, N) reached at a position with position -             *)
(* tracker[origin] > N makes build return an error: no such Fill is ever    *)
(* emitted, a failed emission standing on one reports the fill-start error, *)
(* and no layout pass succeeds with a Fill that it sizes at such a position. *)
C11_FillPastFails ==
    /\ \A k \in 1..Len(log) :
          LET f == FieldAt(log[k])
          IN f.kind = "Fill" => log[k].start - tracker[f.origin] <= f.fill
    /\ (EmitFailed /\ CurrentFillPast) =>
          /\ err.kind = "FillPast"
          /\ err.a = pos - tracker[Current.origin]
          /\ err.b = Current.fill
    /\ Tracked =>
          \A s \in 1..Len(sectors) : \A f \in 1..Len(sectors[s].fields) :
              LET fld == sectors[s].fields[f]
              IN fld.kind = "Fill" =>
                    LayoutStart(s, f) - tracker[fld.origin] <= fld.fill
    /\ (pc = "err" /\ err.kind = "FillPast") => err.a > err.b

C11_Witness ==
    /\ EmitFailed
    /\ CurrentFillPast
    /\ sink0.pos = 1
    /\ Current.fill > 0
    /\ Len(log) > 0

\* SerialTracker::new returned the error build has returned
LayoutFailed == pc = "err" /\ li <= Len(sectors)

(* C12: when the layout pass fails, build returns that error with the sink  *)
(* as it was handed over: the same bytes, the same position, nothing        *)
(* emitted and flush not called.                                            *)
C12_LayoutErrorLeavesSink ==
    LayoutFailed =>
        /\ err # NoError
        /\ data = sink0.data
        /\ pos = sink0.pos
        /\ log = <<>>
        /\ flushed = 0

C12_Witness ==
    /\ LayoutFailed
    /\ li = 2
    /\ \E f \in 1..Len(sectors[1].fields) : sectors[1].fields[f].kind = "U8"
    /\ sectors[2].fields[1].kind = "U8"
    /\ sink0.pos = 1

\* floor(v / s) and ceil(v / s) for naturals v and s >= 1, by their defining
\* inequalities
FloorOf(v, s) == CHOOSE q \in 0..v : (q * s <= v) /\ (v < (q + 1) * s)
CeilOf(v, s) == CHOOSE q \in 0..v : (q * s >= v) /\ (q = 0 \/ (q - 1) * s < v)

(* C13: for every value v and scale s >= 1, ScaleRounding::apply returns    *)
(* floor(v/s) for Floor, ceil(v/s) for Ceiling, and for Nearest floor(v/s)  *)
(* when v is even and floor((v+1)/s) when v is odd.                         *)
C13_RoundingLaw ==
    (call.op = "apply" /\ call.returned) =>
        LET v == call.value
            s == call.scale
        IN call.result =
              CASE call.rounding = "Floor" -> FloorOf(v, s)
                [] call.rounding = "Ceiling" -> CeilOf(v, s)
                [] call.rounding = "Nearest" ->
                      IF v % 2 = 0 THEN FloorOf(v, s) ELSE FloorOf(v + 1, s)

C13_Witness ==
    /\ call.op = "apply"
    /\ call.returned
    /\ call.rounding = "Nearest"
    /\ call.value = 11
    /\ call.scale = 3
    /\ call.result = 4

(* C14 (as stated): for every declared width in {1,2,3,4}, a scaled pointer *)
(* value above 2^(8*width) - 1, that is with a nonzero byte above its first *)
(* `width` bytes, makes the narrowing fail; it is never truncated.          *)
C14_NoTruncation ==
    (call.op = "narrow" /\ call.returned) =>
        ((\E i \in (call.width + 1)..8 : call.scaled[i] # 0) => ~call.result.ok)

\* the current field is a Dynamic whose origin and target are both tracked
CurrentDynamic ==
    /\ si <= Len(sectors)
    /\ Current.kind = "Dynamic"
    /\ Current.origin \in DOMAIN tracker
    /\ Current.sector \in DOMAIN tracker

(* C15: a Dynamic whose target sector starts before its origin sector makes *)
(* build fail with the from-sector-ahead error: no such Dynamic is ever     *)
(* emitted and a failed emission standing on one reports that error; when   *)
(* tracker[to] >= tracker[from] the emission does not fail with it.         *)
C15_OrderingViolation ==
    /\ \A k \in 1..Len(log) :
          LET f == FieldAt(log[k])
          IN f.kind = "Dynamic" => tracker[f.sector] >= tracker[f.origin]
    /\ (EmitFailed /\ CurrentDynamic) =>
          (err.kind = "FromAhead" <=> tracker[Current.sector] < tracker[Current.origin])
    /\ err.kind = "FromAhead" => (EmitFailed /\ CurrentDynamic /\ err.a > err.b)

C15_Witness ==
    /\ EmitFailed
    /\ CurrentDynamic
    /\ err.kind = "FromAhead"
    /\ tracker[Current.sector] = 0
    /\ tracker[Current.origin] = 1
    /\ Len(log) > 0

\* number of fields of the sector the current Dynamic points into
TargetCount == Len(sectors[IndexOf(sectors, Current.sector)].fields)

(* C16 (as stated): with both sectors tracked and the target not before the *)
(* origin, offset_field_from_sector fails when index >= the target's field  *)
(* count, except that index 0 on an empty target succeeds and returns       *)
(* tracker[to] - tracker[from]; for index < the field count it succeeds.    *)
C16_IndexCheck ==
    /\ \A k \in 1..Len(log) :
          LET f == FieldAt(log[k])
              n == Len(sectors[IndexOf(sectors, f.sector)].fields)
          IN f.kind = "Dynamic" =>
                /\ f.index < n \/ (f.index = 0 /\ n = 0)
                /\ n = 0 => ReadLe(log[k].start, f.bytes)
                               = tracker[f.sector] - tracker[f.origin]
    /\ (/\ EmitFailed
        /\ CurrentDynamic
        /\ tracker[Current.sector] >= tracker[Current.origin]) =>
          /\ Current.index >= TargetCount
          /\ Current.index # 0
          /\ err.kind = "IndexRange"

\* the keys of the builder's sectors
BuilderKeys == {sectors[s].key : s \in 1..Len(sectors)}

\* the keys a field refers to
RefKeys(f) ==
    CASE f.kind = "Dynamic" -> {f.origin, f.sector}
      [] f.kind = "Fill" -> {f.origin}
      [] OTHER -> {}

\* a field of the builder refers to a key the builder does not hold
DanglingRef ==
    \E s \in 1..Len(sectors) : \E f \in 1..Len(sectors[s].fields) :
        ~(RefKeys(sectors[s].fields[f]) \subseteq BuilderKeys)

(* C17: a Dynamic whose origin or target key, or a Fill whose origin key,   *)
(* is not a key of the builder makes build return an error: build never     *)
(* succeeds on such a graph, no such field is ever emitted, and a failed    *)
(* emission standing on one reports the missing sector.                     *)
C17_MissingSector ==
    /\ Succeeded => ~DanglingRef
    /\ \A k \in 1..Len(log) : RefKeys(FieldAt(log[k])) \subseteq BuilderKeys
    /\ (EmitFailed /\ ~(RefKeys(Current) \subseteq BuilderKeys)) =>
          /\ err.kind \in {"SectorMissing", "OriginNotFound"}
          /\ err.key \in RefKeys(Current) \ BuilderKeys

C17_Witness ==
    /\ EmitFailed
    /\ Current.kind = "Dynamic"
    /\ Current.origin \in BuilderKeys
    /\ Current.sector \notin BuilderKeys
    /\ err.kind = "SectorMissing"
    /\ Len(log) > 0

\* the size a U8 or External field declares
DeclaredSize(f) == IF f.kind = "External" THEN f.size ELSE 1

\* the declared sizes of the first n fields of a sequence, summed
RECURSIVE DeclaredSum(_, _)
DeclaredSum(fields, n) ==
    IF n = 0 THEN 0 ELSE DeclaredSum(fields, n - 1) + DeclaredSize(fields[n])

(* C18: an External field counts its declared size in the layout whatever   *)
(* the file holds; at emit it fails the build when the bytes written from   *)
(* the file differ in number from the declared size, and otherwise occupies *)
(* exactly size bytes, the file's.                                          *)
C18_ExternalSize ==
    /\ Tracked =>
          \A s \in 1..Len(sectors) :
              tracker[KeyOf(s)] =
                  DeclaredSum(FieldsBefore(sectors, s), Len(FieldsBefore(sectors, s)))
    /\ \A k \in 1..Len(log) :
          LET f == FieldAt(log[k])
          IN f.kind = "External" =>
                /\ Len(Files[f.path]) = f.size
                /\ log[k].end = log[k].start + f.size
                /\ \A i \in 1..f.size : data[log[k].start + i] = Files[f.path][i]
    /\ (EmitFailed /\ Current.kind = "External") =>
          /\ Len(Files[Current.path]) # Current.size
          /\ err.kind = "ExternalSize"
          /\ err.a = Current.size
          /\ err.b = Len(Files[Current.path])

C18_Witness ==
    /\ Succeeded
    /\ sink0.pos = 1
    /\ Len(log) = 3
    /\ FieldAt(log[1]).kind = "External"
    /\ FieldAt(log[3]).kind = "External"
    /\ log[3].s = 2
    /\ tracker[KeyOf(2)] = 2

\* the recorded sector() calls made with the key, as indexes into call.calls
CallsOf(key) == {c \in 1..Len(call.calls) : call.calls[c][1] = key}

\* the greatest and the least element of a non-empty set of naturals
Last(S) == CHOOSE c \in S : \A d \in S : d <= c
First(S) == CHOOSE c \in S : \A d \in S : c <= d

(* C19: after any sequence of sector() calls the builder holds exactly one  *)
(* sector per distinct key that was inserted, in the order of the keys'     *)
(* first insertions, each with the fields of the last insertion under its   *)
(* key; inserting under a present key raises no error.                      *)
C19_SectorReplaces ==
    call.op = "sector" =>
        /\ pc = "construct"
        /\ err = NoError
        /\ \A i, j \in 1..Len(sectors) : sectors[i].key = sectors[j].key => i = j
        /\ BuilderKeys = {call.calls[c][1] : c \in 1..Len(call.calls)}
        /\ \A i \in 1..Len(sectors) :
              /\ sectors[i].fields = call.calls[Last(CallsOf(KeyOf(i)))][2]
              /\ \A j \in 1..Len(sectors) :
                    i < j => First(CallsOf(KeyOf(i))) < First(CallsOf(KeyOf(j)))

C19_Witness ==
    /\ call.op = "sector"
    /\ Len(call.calls) = 3
    /\ call.calls[1][1] = "First"
    /\ call.calls[2][1] = "Second"
    /\ call.calls[3][1] = "First"
    /\ call.calls[1][2] # <<>>
    /\ call.calls[3][2] # <<>>
    /\ call.calls[3][2] # call.calls[1][2]
    /\ Len(sectors) = 2
    /\ sectors[1].fields = call.calls[3][2]

(* C20 (as stated): every build returns success or an error value to its    *)
(* caller; no sector graph built through the public builder surface, a      *)
(* chunk pointer with scale 0 included, makes build abort without           *)
(* returning.                                                               *)
C20_NoAbort == pc # "panic"

(* C21 (as stated): a sector's start is in the in-progress tracker while    *)
(* its own fields are sized, so a Fill whose origin is its containing       *)
(* sector is sized and the layout pass never fails on it with the           *)
(* origin-not-found error.                                                  *)
C21_OwnSectorOrigin ==
    ~(LayoutFailed /\ err.kind = "OriginNotFound" /\ err.key = KeyOf(li))

\* fields[0..index) of the Dynamic's target sector hold a Fill
FillBeforeIndex(f) ==
    LET fields == sectors[IndexOf(sectors, f.sector)].fields
    IN \E i \in 1..f.index : i <= Len(fields) /\ fields[i].kind = "Fill"

(* C22 (as stated): when the target sector of a Dynamic holds a Fill among  *)
(* fields[0..index), the pointer that is written is tracker[to] -           *)
(* tracker[from] plus the sizes the layout pass gave to fields[0..index),   *)
(* whatever the start offset of the origin sector.                          *)
C22_FillInTarget ==
    \A k \in 1..Len(log) :
        LET f == FieldAt(log[k])
            t == IndexOf(sectors, f.sector)
        IN (f.kind = "Dynamic" /\ FillBeforeIndex(f)) =>
              ReadLe(log[k].start, f.bytes) =
                  LayoutStart(t, f.index + 1) - tracker[f.origin]

\* SerialTracker::new has just returned Ok: the layout is complete and no
\* field is emitted yet (the builder and the tracker do not change afterwards)
LayoutDone == pc = "emit" /\ log = <<>>

\* field f of sector s is a Fill whose origin is a sector inserted after s
LaterOrigin(s, f) ==
    /\ sectors[s].fields[f].kind = "Fill"
    /\ IndexOf(sectors, sectors[s].fields[f].origin) > s

\* the first Fill of sector s, 0 if it has none
FirstFill(s) ==
    LET fills == {f \in 1..Len(sectors[s].fields) : sectors[s].fields[f].kind = "Fill"}
    IN IF fills = {} THEN 0 ELSE First(fills)

(* C23: the tracker handed to calculate_size holds the starts of the        *)
(* sectors already processed and no others, so a Fill whose origin is a     *)
(* sector inserted later makes the layout pass fail with origin-not-found:  *)
(* no layout holding such a Fill is accepted, and the pass fails with that  *)
(* error, naming the origin, when it reaches one.                           *)
C23_LaterOrigin ==
    /\ (pc = "track" \/ LayoutFailed) =>
          DOMAIN tracker = {KeyOf(i) : i \in 1..(li - 1)}
    /\ LayoutDone =>
          \A s \in 1..Len(sectors) : \A f \in 1..Len(sectors[s].fields) :
              ~LaterOrigin(s, f)
    /\ (LayoutFailed /\ FirstFill(li) # 0 /\ LaterOrigin(li, FirstFill(li))) =>
          /\ err.kind = "OriginNotFound"
          /\ err.key = sectors[li].fields[FirstFill(li)].origin

C23_Witness ==
    /\ LayoutFailed
    /\ li = 1
    /\ Len(sectors) = 2
    /\ err.kind = "OriginNotFound"
    /\ err.key = KeyOf(2)
    /\ FirstFill(1) # 0
    /\ LaterOrigin(1, FirstFill(1))

\* the positions of the fields emitted so far, in the order they were emitted
Emitted == [k \in 1..Len(log) |-> <<log[k].s, log[k].f>>]

\* the build has returned, with Ok or with an error
Returned == pc \in {"ok", "err", "panic"}

(* C24: the fields are emitted in insertion x declaration order and a field *)
(* that fails ends the build there: the fields emitted are exactly those    *)
(* before the failing one, none after it is ever emitted, and the sink is   *)
(* not flushed.  A build that succeeds has emitted every field and flushed  *)
(* the sink exactly once, as its last step after the last field of the last *)
(* sector.                                                                  *)
C24_FailFast ==
    /\ [](/\ flushed \in {0, 1}
          /\ flushed = 1 <=> Succeeded
          /\ Len(log) <= Len(Flatten(sectors, 1))
          /\ Emitted = SubSeq(Flatten(sectors, 1), 1, Len(log))
          /\ Succeeded => /\ Emitted = Flatten(sectors, 1)
                          /\ err = NoError
          /\ EmitFailed => /\ flushed = 0
                           /\ Len(log) < Len(Flatten(sectors, 1))
                           /\ <<si, fi>> = Flatten(sectors, 1)[Len(log) + 1])
    /\ [][/\ Returned => UNCHANGED <<log, data, pos, flushed, pc, err>>
          /\ flushed' # flushed =>
                /\ Emitted = Flatten(sectors, 1)
                /\ UNCHANGED <<log, data, pos>>
                /\ pc' = "ok"]_vars

C24_Witness ==
    /\ EmitFailed
    /\ Len(log) >= 1
    /\ si < Len(sectors)
    /\ Len(sectors[si + 1].fields) >= 1
    /\ flushed = 0

\* the (sector, field) positions of the builder's Fill fields
FillPositions ==
    {p \in {<<s, f>> : s \in 1..Len(sectors), f \in 1..MaxFields} :
        /\ p[2] <= Len(sectors[p[1]].fields)
        /\ sectors[p[1]].fields[p[2]].kind = "Fill"}

(* C25: while SerialTracker::new runs, every start already in the tracker   *)
(* is at or below the running offset, so fill_size never reports "current   *)
(* position is before fill origin" there: a layout pass fails only with     *)
(* origin-not-found or with fill-target-already-passed, and in an accepted  *)
(* layout every Fill sits at or after the start of its origin.              *)
C25_NoUnderflowInLayout ==
    /\ (pc = "track" \/ LayoutFailed) =>
          \A k \in DOMAIN tracker : tracker[k] <= offset
    /\ LayoutFailed => err.kind \in {"OriginNotFound", "FillPast"}
    /\ LayoutDone =>
          \A p \in FillPositions :
              tracker[sectors[p[1]].fields[p[2]].origin] <= LayoutStart(p[1], p[2])

C25_Witness ==
    /\ Tracked
    /\ \E p \in FillPositions :
          LET origin == sectors[p[1]].fields[p[2]].origin
          IN /\ tracker[origin] > 0
             /\ LayoutStart(p[1], p[2]) = tracker[origin]

\* the errors only a Dynamic raises: a key the tracker or the builder lacks,
\* a target before the origin, an index past the target's fields, a width
\* outside 1..4 and a pointer too large for its width
DynamicErrors ==
    {"SectorMissing", "FromAhead", "IndexRange", "UnsupportedWidth", "PointerLimit"}

\* the (sector, field) positions of the builder's Dynamic fields
DynamicPositions ==
    {p \in {<<s, f>> : s \in 1..Len(sectors), f \in 1..MaxFields} :
        /\ p[2] <= Len(sectors[p[1]].fields)
        /\ sectors[p[1]].fields[p[2]].kind = "Dynamic"}

(* C26: the layout pass sizes a Dynamic as its declared bytes and raises    *)
(* none of the errors of a Dynamic; such an error is raised only by the     *)
(* emission of that Dynamic, and the build that fails with it has emitted   *)
(* every field before the Dynamic, in insertion x declaration order.        *)
C26_DynamicErrorsAtEmit ==
    /\ LayoutFailed => err.kind \notin DynamicErrors
    /\ LayoutDone =>
          \A p \in DynamicPositions :
              LayoutSize(p[1], p[2]) = sectors[p[1]].fields[p[2]].bytes
    /\ (pc = "err" /\ err.kind \in DynamicErrors) =>
          /\ EmitFailed
          /\ Current.kind = "Dynamic"
          /\ Len(log) < Len(Flatten(sectors, 1))
          /\ Flatten(sectors, 1)[Len(log) + 1] = <<si, fi>>
          /\ \A k \in 1..Len(log) :
                /\ <<log[k].s, log[k].f>> = Flatten(sectors, 1)[k]
                /\ FieldAt(log[k]).kind # "Fill" =>
                      log[k].end - log[k].start = LayoutSize(log[k].s, log[k].f)

C26_Witness ==
    /\ pc = "err"
    /\ err.kind \in DynamicErrors
    /\ Len(log) >= 2
    /\ FieldAt(log[1]).kind = "Dynamic"
    /\ WroteBytes(log[2])

\* some key was handed to sector() more than once
Reinserted ==
    \E i, j \in 1..Len(call.calls) : i < j /\ call.calls[i][1] = call.calls[j][1]

(* C27: whatever sequence of sector() calls made the builder, its map holds *)
(* each key once, every key SerialTracker::new inserts is new to the        *)
(* tracker, and no build ends with "Sector offsets was already populated".  *)
C27_NoDuplicateKey ==
    /\ \A i, j \in 1..Len(sectors) : KeyOf(i) = KeyOf(j) => i = j
    /\ (pc = "track" \/ LayoutFailed) => KeyOf(li) \notin DOMAIN tracker
    /\ err.kind # "AlreadyPopulated"

C27_Witness ==
    /\ Reinserted
    /\ Succeeded
    /\ Len(sectors) = 2
    /\ DOMAIN tracker = BuilderKeys

====
